---- MODULE Spec2Model ----
(***************************************************************************)
(* Model of the capped, resumable download engine of AncientWorld:         *)
(*   tools/download_capped.py   (sequential capped downloader)             *)
(*   tools/dedupe_exact.py      (exact duplicate removal pass)             *)
(*   tools/retry_failed.py      (operator bulk reset failed -> pending)    *)
(*   tools/download_parallel.py (feeder thread + one worker per source)    *)
(* over the shared sqlite tables `candidates` and `stats` and the image    *)
(* directory.  Sizes are counted in abstract units (one unit = one chunk   *)
(* of the streamed response).  Every candidate carries the same mime type, *)
(* so safe_ext() yields one extension and a final path is determined by    *)
(* the name base alone.                                                    *)
(***************************************************************************)
EXTENDS Integers, Sequences, FiniteSets, TLC

\* ------------------------------------------------------------------ bounds
NCand == 2
MaxRuns == 2
MaxFaults == 3
MaxCycles == 1
NMan == 2
MaxServices == 2

\* ------------------------------------------------------- program constants
MAX_STORAGE_BYTES == 3
MAX_RETRIES == 3
PERCEPTUAL_HASH_THRESHOLD == 1
BATCH_SIZE == 200
FEED_LIMIT == 50
HARVEST_BATCH == 50
\* Queue(maxsize=100), scaled to the size of the modelled tables
QUEUE_MAXSIZE == 2

NULL == -1

\* NULL in a TEXT column (candidates.error, manifests.error)
NULL_TEXT == "NULL"

Sha1s == {1}
Sources == {"wikimedia_commons", "europeana"}

\* what a URL serves: content 1 is a large image of 2 units, content 2 a large
\* image of 1 unit, content 3 an image below 900 x 900 pixels of 1 unit;
\* content 4 stands for a URL that answers every GET with HTTP 404;
\* content 5 is a large image of 1 unit
SizeOf(k) == IF k = 1 THEN 2 ELSE 1
IsSmall(k) == k = 3
NotFound == 4
PHASH_BITS == 2
HEX_TEXT == 16
SOURCE_BATCH == 50
max_images == 2
ENABLE_PERCEPTUAL_HASH == TRUE

VARIABLES
    cand,              \* immutable discovery columns of each row: sha1, and the content its URL serves
    status,            \* candidates.status
    local_path,        \* candidates.local_path
    downloaded_bytes,  \* candidates.downloaded_bytes
    sha256_local,      \* candidates.sha256_local
    error,             \* candidates.error
    phash,             \* candidates.phash
    downloaded_count,  \* download_from_source: images downloaded by this call
    stats,             \* stats table
    files,             \* final paths of the image directory
    parts,             \* temporary ".part" paths
    pc,                \* download_capped: position of main()
    total_bytes,       \* download_capped: local total_bytes
    batch,             \* download_capped: rest of the batch being iterated
    cid,               \* download_capped: current candidate
    attempt,           \* download_capped: attempt of the retry loop
    content_length,    \* download_capped: result of head_size
    bytes_written,     \* download_capped: download_file counter
    claimed_total,     \* download_capped: total_bytes when the current candidate was claimed
    sha256,            \* download_capped: digest computed after the rename
    runs,              \* number of downloader runs started
    faults,            \* number of exceptions (network, store) and kills so far
    rested,            \* per source: the pause after the last request to it has been slept
    queue,             \* download_parallel: queues[source]
    stop_event,        \* download_parallel: stop_event
    stats_lock,        \* download_parallel: holder of stats_lock
    total_bytes_downloaded, \* download_parallel: global total_bytes_downloaded
    wpc,               \* download_worker(source): position
    wtask,             \* download_worker(source): cid of the task
    wbytes,            \* download_worker(source): bytes_written
    werr,              \* download_worker(source): the exception e being handled
    fpc,               \* download_parallel main(): position
    fsrcs,             \* download_parallel main(): sources still to visit in the current loop
    fbatch,            \* download_parallel main(): tasks of the batch still to put
    cycles,            \* download_parallel main(): iterations of the feed loop
    claims,            \* history: how often a worker has marked the row 'downloading'
    man,               \* per manifest row: its source and the number of image services its manifest_url lists
    man_status,        \* manifests.status
    man_error,         \* manifests.error
    hpc,               \* iiif_harvest_manifest: position of main()
    hrows,             \* iiif_harvest_manifest: rest of the batch of manifests being iterated
    mid,               \* iiif_harvest_manifest: current manifest
    service_ids,       \* iiif_harvest_manifest: service ids still to insert
    harvested,         \* candidates rows of IIIF images: source, image_url, status; by: the manifest that inserted the row
    picked,            \* history: how often the harvester has marked the manifest 'downloading'
    image_url,         \* candidates.image_url: its host, and the host named in its uri parameter
    domain,            \* download_from_source: the domain argument of the running process
    peer               \* download_parallel_sources: the locals of the other process of the pool

dbVars == <<status, local_path, downloaded_bytes, sha256_local, error, stats>>
fsVars == <<files, parts>>
capVars == <<pc, total_bytes, batch, cid, attempt, content_length, bytes_written,
            claimed_total, sha256>>
parVars == <<queue, stop_event, stats_lock, total_bytes_downloaded,
            wpc, wtask, wbytes, werr, fpc, fsrcs, fbatch, cycles, claims>>
manVars == <<man, man_status, man_error, hpc, hrows, mid, service_ids, harvested, picked>>
poolVars == <<image_url, domain, peer>>
vars == <<cand, poolVars, dbVars, phash, downloaded_count, fsVars, capVars, runs, faults, rested, parVars, manVars>>

\* the rows of the candidates table, by id
Cands == DOMAIN cand

\* ------------------------------------------------------------- file system
NoFile == [data |-> 0, size |-> 0]
Exists(f) == f.data # 0

\* ensure_prefix_path(name_base) / (name_base + ext): the path named after the
\* sha1 h is written 0 - h - 1, the path named "id<c>" is written c
ShaPath(h) == 0 - h - 1

\* name_base = sha1.lower() if sha1 else f"id{cid}"; dest = out_dir / (name_base + ext)
DestOf(c) == IF cand[c].sha1 # NULL THEN ShaPath(cand[c].sha1) ELSE c

\* digest of the bytes actually in the file: a truncated file hashes differently
compute_sha256(f) == f.data * 10 + f.size

\* ------------------------------------------------------------------ helpers
RECURSIVE SumBytes(_, _)
SumBytes(S, bytes) ==
    IF S = {} THEN 0
    ELSE LET x == CHOOSE y \in S : TRUE IN bytes[x] + SumBytes(S \ {x}, bytes)

Perms(S) == {s \in [1..Cardinality(S) -> S] : \A i, j \in 1..Cardinality(S) : i # j => s[i] # s[j]}

Take(s, n) == IF Len(s) <= n THEN s ELSE SubSeq(s, 1, n)

\* a variant of pick_batch that also selects the rows that failed
pick_batch_or_failed(batch_size) ==
    {Take(p, batch_size) : p \in Perms({c \in Cands : status[c] \in {"pending", "failed"}})}

\* pick_batch: pending rows ordered by width, height (ties and unknown widths in any order), LIMIT batch_size
pick_batch(batch_size) ==
    {Take(p, batch_size) : p \in Perms({c \in Cands : status[c] = "pending"})}

\* ------------------------------------------------------------------- Init
CandRows(n, srcs, contents) ==
    {f \in [1..n -> [source : srcs, sha1 : Sha1s \cup {NULL}, content : contents]] :
        \A a, b \in 1..n : (f[a].sha1 # NULL /\ f[a].sha1 = f[b].sha1) => f[a].content = f[b].content}

Paths(n) == (1..n) \cup {ShaPath(h) : h \in Sha1s}

\* init_database.py: every discovered row is pending with no download columns set
InitStore(n, srcs, contents) ==
    /\ cand \in CandRows(n, srcs, contents)
    /\ status = [c \in 1..n |-> "pending"]
    /\ local_path = [c \in 1..n |-> NULL]
    /\ downloaded_bytes = [c \in 1..n |-> NULL]
    /\ sha256_local = [c \in 1..n |-> NULL]
    /\ error = [c \in 1..n |-> NULL_TEXT]
    /\ phash = [c \in 1..n |-> NULL]
    /\ stats = [total_downloaded_bytes |-> 0, total_files_downloaded |-> 0,
                total_failed |-> 0, total_skipped |-> 0]
    /\ files = [p \in Paths(n) |-> NoFile]
    /\ parts = [p \in Paths(n) |-> NoFile]

InitCapped ==
    /\ pc = "idle"
    /\ total_bytes = 0
    /\ batch = <<>>
    /\ cid = NULL
    /\ attempt = 0
    /\ content_length = NULL
    /\ bytes_written = 0
    /\ claimed_total = 0
    /\ downloaded_count = 0
    /\ sha256 = NULL
    /\ runs = 0

\* the record of a pool process; pc "none": there is no such process
NoPeer ==
    [pc |-> "none", batch |-> <<>>, cid |-> NULL, attempt |-> 0, total_bytes |-> 0,
     downloaded_count |-> 0, domain |-> "none"]

\* commons_discover.py, line 81: the url of the imageinfo, on upload.wikimedia.org
CommonsUrl == [netloc |-> "upload.wikimedia.org", uri |-> "none"]

\* europeana_discover.py, lines 202-217: edmIsShownBy, a media link on the
\* provider's host, or else edmPreview, the thumbnail service of
\* api.europeana.eu with the provider's link in its uri parameter
EuropeanaUrls ==
    {[netloc |-> "gallica.bnf.fr", uri |-> "none"],
     [netloc |-> "api.europeana.eu", uri |-> "gallica.bnf.fr"],
     [netloc |-> "api.europeana.eu", uri |-> "none"]}

\* rows of Wikimedia Commons with their upload URL, the others with a
\* thumbnail URL; one process, for the domain of the commons rows
InitPool ==
    /\ image_url = [c \in Cands |->
                      IF cand[c].source = "wikimedia_commons"
                      THEN CommonsUrl
                      ELSE [netloc |-> "api.europeana.eu", uri |-> "none"]]
    /\ domain = "upload.wikimedia.org"
    /\ peer = NoPeer

\* download_parallel not started: module globals as defined at lines 54-56
InitParallel ==
    /\ queue = [s \in Sources |-> <<>>]
    /\ stop_event = FALSE
    /\ stats_lock = "free"
    /\ total_bytes_downloaded = 0
    /\ wpc = [s \in Sources |-> "absent"]
    /\ wtask = [s \in Sources |-> NULL]
    /\ wbytes = [s \in Sources |-> 0]
    /\ werr = [s \in Sources |-> "none"]
    /\ fpc = "idle"
    /\ fsrcs = <<>>
    /\ fbatch = <<>>
    /\ cycles = 0
    /\ claims = [c \in Cands |-> 0]

\* migrate_add_manifests.py: every manifest row is pending with no error;
\* the harvester is not running
\* iiif_full_image_url: service_id.rstrip("/") + "/full/max/0/default.jpg";
\* a service id is the pair of its text without trailing slashes and the
\* number of trailing slashes
iiif_full_image_url(service_id) == <<<<service_id[1], 0>>, "/full/max/0/default.jpg">>

\* candidates rows of IIIF images that an earlier expansion and download left
\* behind when the harvester starts
EarlierRows ==
    {<<>>, <<[source |-> "wikimedia_commons", image_url |-> iiif_full_image_url(<<1, 0>>),
              status |-> "downloaded", by |-> NULL]>>}

InitManifests(n) ==
    /\ man \in [1..n -> [source : Sources, services : 0..MaxServices]]
    /\ man_status = [m \in 1..n |-> "pending"]
    /\ man_error = [m \in 1..n |-> NULL_TEXT]
    /\ hpc = "idle"
    /\ hrows = <<>>
    /\ mid = NULL
    /\ service_ids = <<>>
    /\ harvested \in IF n = 0 THEN {<<>>} ELSE EarlierRows
    /\ picked = [m \in 1..n |-> 0]

Init ==
    /\ InitStore(NCand, {"wikimedia_commons"}, {1, 2})
    /\ InitCapped
    /\ InitPool
    /\ InitParallel
    /\ faults = 0
    /\ rested = [s \in Sources |-> TRUE]
    /\ InitManifests(0)

\* a request (HEAD or GET) goes out to source s
request(s) == [rested EXCEPT ![s] = FALSE]

\* time.sleep(...) of at least the pause between two downloads
time_sleep == [s \in Sources |-> TRUE]

\* -------------------------------------------------------- download_capped
\* mark_candidate(con, cid, status, **fields) on the candidates table
mark_candidate(st, c, s) == [st EXCEPT ![c] = s]

\* increment_stat(con, key, amount)
increment_stat(key, amount) == [stats EXCEPT ![key] = @ + amount]

\* head_size: the Content-Length of the response, or None when the header is
\* missing or the request raises
head_size(c) == {NULL, SizeOf(cand[c].content)}

\* line 247, a variant that compares against one unit more than the cap
would_exceed_off_by_one(total, cl) == cl # NULL /\ cl # 0 /\ total + cl > MAX_STORAGE_BYTES + 1

\* line 247: if content_length and total_bytes + content_length > MAX_STORAGE_BYTES
would_exceed(total, cl) == cl # NULL /\ cl # 0 /\ total + cl > MAX_STORAGE_BYTES

\* the per-candidate locals of main() hold nothing that is read again
\* once the loop moves on to the next candidate
ForgetCandidate ==
    /\ cid' = NULL
    /\ attempt' = 0
    /\ content_length' = NULL
    /\ bytes_written' = 0
    /\ claimed_total' = 0
    /\ sha256' = NULL

\* main(), lines 199-207: connect and read the persisted counter
CappedStart ==
    /\ pc = "idle"
    /\ runs < MaxRuns
    /\ runs' = runs + 1
    /\ pc' = "while"
    /\ total_bytes' = stats.total_downloaded_bytes
    /\ batch' = <<>>
    /\ ForgetCandidate
    /\ UNCHANGED <<cand, poolVars, phash, downloaded_count, manVars, rested, parVars, dbVars, fsVars, faults>>

\* leaving the while loop, lines 306-318: final stats, con.close(), return 0
CappedFinish ==
    /\ pc' = "idle"
    /\ batch' = <<>>
    /\ total_bytes' = 0
    /\ ForgetCandidate

\* while total_bytes < MAX_STORAGE_BYTES: batch = pick_batch(...); if not batch: break
CappedWhile ==
    /\ pc = "while"
    /\ IF total_bytes >= MAX_STORAGE_BYTES
       THEN CappedFinish
       ELSE \E b \in pick_batch(BATCH_SIZE) :
              IF b = <<>>
              THEN CappedFinish
              ELSE /\ batch' = b
                   /\ pc' = "for"
                   /\ UNCHANGED <<total_bytes, cid, attempt, content_length, bytes_written,
                                claimed_total, sha256>>
    /\ UNCHANGED <<cand, poolVars, phash, downloaded_count, manVars, rested, parVars, dbVars, fsVars, runs, faults>>

\* for ... in batch: cap check, then mark_candidate(con, cid, "downloading"); con.commit()
CappedFor ==
    /\ pc = "for"
    /\ IF batch = <<>>
       THEN /\ pc' = "while"
            /\ UNCHANGED <<status, batch, cid, claimed_total>>
       ELSE IF total_bytes >= MAX_STORAGE_BYTES
       THEN /\ pc' = "while"
            /\ batch' = <<>>
            /\ UNCHANGED <<status, cid, claimed_total>>
       ELSE /\ cid' = Head(batch)
            /\ claimed_total' = total_bytes
            /\ batch' = Tail(batch)
            /\ status' = mark_candidate(status, Head(batch), "downloading")
            /\ pc' = "dest"
    /\ UNCHANGED <<cand, poolVars, phash, downloaded_count, manVars, rested, parVars, local_path, downloaded_bytes, sha256_local, error, stats, fsVars,
                   total_bytes, attempt, content_length, bytes_written, sha256, runs, faults>>

\* lines 225-258: file name, "skip if already exists", HEAD pre-check
CappedDest ==
    /\ pc = "dest"
    /\ LET dest == DestOf(cid) IN
       IF Exists(files[dest])
       THEN /\ status' = mark_candidate(status, cid, "downloaded")
            /\ local_path' = [local_path EXCEPT ![cid] = dest]
            /\ downloaded_bytes' = [downloaded_bytes EXCEPT ![cid] = files[dest].size]
            /\ sha256_local' = [sha256_local EXCEPT ![cid] = compute_sha256(files[dest])]
            /\ stats' = increment_stat("total_files_downloaded", 1)
            /\ pc' = "for"
            /\ ForgetCandidate
            /\ UNCHANGED <<error, total_bytes, batch, rested>>
       ELSE \E cl \in head_size(cid) :
            IF would_exceed(total_bytes, cl)
            THEN /\ status' = mark_candidate(status, cid, "skipped")
                 /\ error' = [error EXCEPT ![cid] = "would exceed storage cap"]
                 /\ stats' = increment_stat("total_skipped", 1)
                 /\ total_bytes' = MAX_STORAGE_BYTES
                 /\ batch' = <<>>
                 /\ pc' = "while"
                 /\ ForgetCandidate
                 /\ rested' = request(cand[cid].source)
                 /\ UNCHANGED <<local_path, downloaded_bytes, sha256_local>>
            ELSE /\ content_length' = cl
                 /\ attempt' = 0
                 /\ pc' = "get"
                 /\ rested' = request(cand[cid].source)
                 /\ UNCHANGED <<dbVars, total_bytes, batch, cid, bytes_written, claimed_total, sha256>>
    /\ UNCHANGED <<cand, poolVars, phash, downloaded_count, manVars, parVars, fsVars, runs, faults>>

may_retry_once_more(a) == a < MAX_RETRIES

\* line 292: if attempt < MAX_RETRIES - 1, inside for attempt in range(MAX_RETRIES)
may_retry(a) == a < MAX_RETRIES - 1

\* except Exception as e, lines 291-301, for whatever was raised: back off
\* and retry, or mark failed after the last attempt
CappedHandler ==
    /\ IF may_retry(attempt)
       THEN /\ attempt' = attempt + 1
            /\ pc' = "get"
            /\ bytes_written' = 0
            /\ sha256' = NULL
            /\ rested' = time_sleep
            /\ UNCHANGED <<status, error, stats, cid, content_length, claimed_total>>
       ELSE /\ status' = mark_candidate(status, cid, "failed")
            /\ error' = [error EXCEPT ![cid] = "exception"]
            /\ stats' = increment_stat("total_failed", 1)
            /\ pc' = "for"
            /\ rested' = request(cand[cid].source)
            /\ ForgetCandidate

\* a transient error (network, store) is raised and handled
CappedExcept ==
    /\ faults < MaxFaults
    /\ faults' = faults + 1
    /\ CappedHandler

stream_done_early(written, c) == written >= 1

\* the for loop over r.iter_content() ends when every chunk of the body was written
stream_done(written, c) == written >= SizeOf(cand[c].content)

\* download_file, lines 160-170: GET, raise_for_status (raises HTTPError on
\* a 404 answer), open(dest_tmp, "wb")
CappedGet ==
    /\ pc = "get"
    /\ \/ /\ cand[cid].content # NotFound
          /\ parts' = [parts EXCEPT ![DestOf(cid)] = [data |-> cand[cid].content, size |-> 0]]
          /\ bytes_written' = 0
          /\ pc' = "stream"
          /\ rested' = request(cand[cid].source)
          /\ UNCHANGED <<status, error, stats, cid, attempt, content_length, sha256,
                       claimed_total, faults>>
       \/ /\ cand[cid].content # NotFound
          /\ CappedExcept
          /\ UNCHANGED parts
       \/ /\ cand[cid].content = NotFound
          /\ CappedHandler
          /\ UNCHANGED <<parts, faults>>
    /\ UNCHANGED <<cand, poolVars, phash, downloaded_count, manVars, parVars, local_path, downloaded_bytes, sha256_local, files,
                   total_bytes, batch, runs>>

\* download_file, lines 171-178: write the chunks to dest_tmp, then os.replace(dest_tmp, dest)
CappedStream ==
    /\ pc = "stream"
    /\ LET dest == DestOf(cid) IN
       IF ~stream_done(bytes_written, cid)
       THEN \/ /\ parts' = [parts EXCEPT ![dest].size = @ + 1]
               /\ bytes_written' = bytes_written + 1
               /\ UNCHANGED <<files, pc, status, error, stats, cid, attempt, content_length, sha256,
                            claimed_total, faults, rested>>
            \/ /\ CappedExcept
               /\ UNCHANGED <<files, parts>>
       ELSE /\ files' = [files EXCEPT ![dest] = parts[dest]]
            /\ parts' = [parts EXCEPT ![dest] = NoFile]
            /\ pc' = "sha"
            /\ UNCHANGED <<bytes_written, claimed_total, status, error, stats, cid, attempt, content_length, sha256,
                         faults, rested>>
    /\ UNCHANGED <<cand, poolVars, phash, downloaded_count, manVars, parVars, local_path, downloaded_bytes, sha256_local,
                   total_bytes, batch, runs>>

\* lines 267-271: compute_sha256(dest); total_bytes += bytes_written; set_total_bytes (commits),
\* or the store raises (sqlite3.OperationalError) after the local counter was increased
CappedSetTotal ==
    /\ pc = "sha"
    /\ total_bytes' = total_bytes + bytes_written
    /\ \/ /\ stats' = [stats EXCEPT !.total_downloaded_bytes = total_bytes + bytes_written]
          /\ sha256' = compute_sha256(files[DestOf(cid)])
          /\ pc' = "mark"
          /\ UNCHANGED <<status, error, cid, attempt, content_length, bytes_written,
                       claimed_total, faults,
                       rested>>
       \/ CappedExcept
    /\ UNCHANGED <<cand, poolVars, phash, downloaded_count, manVars, parVars, local_path, downloaded_bytes, sha256_local, fsVars,
                   batch, runs>>

\* lines 273-289: mark downloaded, count the file, commit; or the store raises
CappedMark ==
    /\ pc = "mark"
    /\ \/ /\ status' = mark_candidate(status, cid, "downloaded")
          /\ downloaded_bytes' = [downloaded_bytes EXCEPT ![cid] = bytes_written]
          /\ local_path' = [local_path EXCEPT ![cid] = DestOf(cid)]
          /\ sha256_local' = [sha256_local EXCEPT ![cid] = sha256]
          /\ stats' = increment_stat("total_files_downloaded", 1)
          /\ pc' = "for"
          /\ ForgetCandidate
          /\ rested' = time_sleep
          /\ UNCHANGED <<error, faults>>
       \/ /\ CappedExcept
          /\ UNCHANGED <<local_path, downloaded_bytes, sha256_local>>
    /\ UNCHANGED <<cand, poolVars, phash, downloaded_count, manVars, parVars, fsVars, total_bytes, batch, runs>>

\* lines 232-242 are outside the try block of the retry loop: when
\* dest.stat(), compute_sha256(dest) or the UPDATE of the existing-file path
\* raises, the exception leaves main() and the run ends with a traceback
CappedRaise ==
    /\ pc = "dest"
    /\ Exists(files[DestOf(cid)])
    /\ faults < MaxFaults
    /\ faults' = faults + 1
    /\ CappedFinish
    /\ UNCHANGED <<cand, poolVars, phash, downloaded_count, manVars, rested, parVars, dbVars, fsVars, runs>>

\* the process is killed at any point of a run: its memory is lost, the store
\* and the files stay as they are
CappedKill ==
    /\ pc # "idle"
    /\ faults < MaxFaults
    /\ faults' = faults + 1
    /\ CappedFinish
    /\ UNCHANGED <<cand, poolVars, phash, downloaded_count, manVars, rested, parVars, dbVars, fsVars, runs>>

\* ------------------------------------------------------------ dedupe_exact
\* rows: SELECT ... WHERE status='downloaded' AND local_path IS NOT NULL ORDER BY id ASC
DownloadedRows ==
    SelectSeq([i \in 1..Len(cand) |-> i],
              LAMBDA c : status[c] = "downloaded" /\ local_path[c] # NULL)

\* the for loop of main(), lines 52-74, over the rows not yet visited
RECURSIVE DedupeExactLoop(_, _)
DedupeExactLoop(rows, st) ==
    IF rows = <<>> THEN st
    ELSE LET c == Head(rows)
             path == local_path[c]
         IN IF ~Exists(st.files[path])
            THEN DedupeExactLoop(Tail(rows), st)
            ELSE LET sha == IF sha256_local[c] # NULL THEN sha256_local[c]
                            ELSE compute_sha256(st.files[path])
                 IN IF sha \in st.seen_hashes
                    THEN DedupeExactLoop(Tail(rows),
                            [st EXCEPT !.files[path] = NoFile,
                                       !.bytes_freed = @ + st.files[path].size,
                                       !.status[c] = "duplicate",
                                       !.downloaded_bytes[c] = 0])
                    ELSE DedupeExactLoop(Tail(rows),
                            [st EXCEPT !.seen_hashes = @ \cup {sha}])

\* main(), lines 39-74: the pass over all downloaded rows, from empty seen_hashes
DedupeExactPass ==
    DedupeExactLoop(DownloadedRows,
                    [seen_hashes |-> {}, bytes_freed |-> 0, files |-> files,
                     status |-> status, downloaded_bytes |-> downloaded_bytes])

\* main(): the pass, then the counter update and the commit; the UPDATEs are
\* one transaction, committed at line 80
DedupeExactRun ==
    /\ LET r == DedupeExactPass
       IN /\ files' = r.files
          /\ status' = r.status
          /\ downloaded_bytes' = r.downloaded_bytes
          /\ stats' = [stats EXCEPT !.total_downloaded_bytes = @ - r.bytes_freed]
    /\ UNCHANGED <<cand, poolVars, phash, downloaded_count, manVars, rested, parVars, local_path, sha256_local, error, parts, capVars, runs, faults>>

\* dedupe_exact started while no downloader runs
DedupeExact ==
    /\ pc = "idle"
    /\ DedupeExactRun

\* dedupe_exact started from a second shell while download_capped is between
\* two candidates
DedupeExactMeanwhile ==
    /\ pc = "for"
    /\ DedupeExactRun

\* -------------------------------------------------------- dedupe_perceptual
\* imagehash.phash(img): the perceptual hash of what the file holds, as a
\* number of PHASH_BITS bits; contents 1 and 2 are the same picture in two
\* sizes, content 3 differs from them in one bit and content 5 in two
imagehash_phash(k) == CASE k = 3 -> 1 [] k = 5 -> 3 [] OTHER -> 0

\* phash - seen_phash: the number of bits in which two hashes differ
hash_difference(h1, h2) ==
    Cardinality({b \in 0..(PHASH_BITS - 1) : (h1 \div (2 ^ b)) % 2 # (h2 \div (2 ^ b)) % 2})

\* str(phash), the text stored in candidates.phash, and imagehash.hex_to_hash
\* that reads it back; the text of hash h is coded as HEX_TEXT + h
hash_to_hex(h) == HEX_TEXT + h
hex_to_hash(t) == t - HEX_TEXT

\* line 64-65: for seen_phash, seen_id in seen_hashes.items(): if phash -
\* seen_phash <= PERCEPTUAL_HASH_THRESHOLD
within_seen(h, st) ==
    \E seen_phash \in st.seen_hashes : hash_difference(h, seen_phash) <= PERCEPTUAL_HASH_THRESHOLD

\* the for loop of main(), lines 46-87, over the rows not yet visited
RECURSIVE DedupePerceptualLoop(_, _)
DedupePerceptualLoop(rows, st) ==
    IF rows = <<>> THEN st
    ELSE LET c == Head(rows)
             path == local_path[c]
         IN IF ~Exists(st.files[path])
            THEN DedupePerceptualLoop(Tail(rows), st)
            ELSE LET h == IF phash[c] # NULL THEN hex_to_hash(phash[c])
                          ELSE imagehash_phash(st.files[path].data)
                     st1 == [st EXCEPT !.phash[c] = IF phash[c] # NULL THEN phash[c]
                                                    ELSE hash_to_hex(h),
                                       !.hashes[c] = h]
                 IN IF within_seen(h, st)
                    THEN DedupePerceptualLoop(Tail(rows),
                            [st1 EXCEPT !.files[path] = NoFile,
                                        !.bytes_freed = @ + st.files[path].size,
                                        !.status[c] = "perceptual_duplicate",
                                        !.downloaded_bytes[c] = 0])
                    ELSE DedupePerceptualLoop(Tail(rows),
                            [st1 EXCEPT !.seen_hashes = @ \cup {h}])

\* main(), lines 33-87: the pass over all downloaded rows, from empty
\* seen_hashes; hashes records the hash found for each visited row
DedupePerceptualPass ==
    DedupePerceptualLoop(DownloadedRows,
                    [seen_hashes |-> {}, bytes_freed |-> 0, files |-> files,
                     status |-> status, downloaded_bytes |-> downloaded_bytes,
                     phash |-> phash, hashes |-> [c \in Cands |-> NULL]])

\* main(): the pass, then the counter update (lines 92-94) and the commit
DedupePerceptual ==
    /\ pc = "idle"
    /\ LET r == DedupePerceptualPass
       IN /\ files' = r.files
          /\ status' = r.status
          /\ downloaded_bytes' = r.downloaded_bytes
          /\ phash' = r.phash
          /\ stats' = [stats EXCEPT !.total_downloaded_bytes = @ - r.bytes_freed]
    /\ UNCHANGED <<cand, poolVars, downloaded_count, manVars, rested, parVars, local_path, sha256_local,
                   error, parts, capVars, runs, faults>>

\* ------------------------------------------------------------ retry_failed
rows_not_pending == {c \in Cands : status[c] \in {"failed", "downloaded"}}

\* the rows of UPDATE candidates ... WHERE status = 'failed', lines 77-83
failed_rows == {c \in Cands : status[c] = "failed"}

\* main(): count the failed rows, ask the operator, reset them and lower total_failed
RetryFailed ==
    /\ pc = "idle"
    /\ LET failed == failed_rows
           failed_count == Cardinality({c \in Cands : status[c] = "failed"})
       IN \E response \in {"y", "n"} :
            IF failed_count = 0 \/ response # "y"
            THEN UNCHANGED <<status, error, stats>>
            ELSE /\ status' = [c \in Cands |-> IF c \in failed THEN "pending" ELSE status[c]]
                 /\ error' = [c \in Cands |-> IF c \in failed THEN NULL_TEXT ELSE error[c]]
                 /\ stats' = increment_stat("total_failed", 0 - failed_count)
    /\ UNCHANGED <<cand, poolVars, phash, downloaded_count, manVars, rested, parVars, local_path, downloaded_bytes, sha256_local, fsVars, capVars, runs, faults>>

\* ------------------------------------------------------- download_parallel
seqVars == <<capVars, runs>>
workerLocals == <<wpc, wtask, wbytes, werr>>
feederLocals == <<fpc, fsrcs, fbatch, cycles>>

\* queues.keys(): the sources that had pending rows when main() started, in a fixed order
ActiveSources ==
    SelectSeq(<<"wikimedia_commons", "europeana">>, LAMBDA s : wpc[s] # "absent")

\* SELECT ... WHERE status='pending' AND source=? LIMIT 50
pending_of(s) ==
    Take(SelectSeq([i \in 1..Len(cand) |-> i],
                   LAMBDA c : status[c] = "pending" /\ cand[c].source = s), FEED_LIMIT)

\* main(), lines 254-308: read the persisted counter, find the sources with
\* pending rows, create one queue and start one worker thread per source
ParStart ==
    /\ fpc = "idle"
    /\ pc = "idle"
    /\ total_bytes_downloaded' = stats.total_downloaded_bytes
    /\ LET sources == {cand[c].source : c \in {x \in Cands : status[x] = "pending"}} IN
       IF sources = {}
       THEN /\ fpc' = "exit"
            /\ UNCHANGED wpc
       ELSE /\ fpc' = "while"
            /\ wpc' = [s \in Sources |-> IF s \in sources THEN "get" ELSE "absent"]
    /\ UNCHANGED <<cand, poolVars, phash, downloaded_count, manVars, rested, dbVars, fsVars, seqVars, faults, queue, stop_event, stats_lock,
                   wtask, wbytes, werr, fsrcs, fbatch, cycles, claims>>

\* line 313: while total_bytes_downloaded < MAX_STORAGE_BYTES and not stop_event.is_set()
ParWhile ==
    /\ fpc = "while"
    /\ IF total_bytes_downloaded < MAX_STORAGE_BYTES /\ ~stop_event
       THEN /\ fsrcs' = ActiveSources
            /\ fpc' = "forsrc"
       ELSE /\ fpc' = "shutdown"
            /\ UNCHANGED fsrcs
    /\ UNCHANGED <<cand, poolVars, phash, downloaded_count, manVars, rested, dbVars, fsVars, seqVars, faults, queue, stop_event, stats_lock,
                   total_bytes_downloaded, workerLocals, fbatch, cycles, claims>>

\* lines 315-327: for source in queues.keys(): select the pending rows of the source
ParForSource ==
    /\ fpc = "forsrc"
    /\ IF fsrcs = <<>> \/ stop_event
       THEN /\ fpc' = "pending"
            /\ fsrcs' = <<>>
            /\ UNCHANGED fbatch
       ELSE IF pending_of(Head(fsrcs)) = <<>>
       THEN /\ fsrcs' = Tail(fsrcs)
            /\ UNCHANGED <<fpc, fbatch>>
       ELSE /\ fbatch' = pending_of(Head(fsrcs))
            /\ fpc' = "put"
            /\ UNCHANGED fsrcs
    /\ UNCHANGED <<cand, poolVars, phash, downloaded_count, manVars, rested, dbVars, fsVars, seqVars, faults, queue, stop_event, stats_lock,
                   total_bytes_downloaded, workerLocals, cycles, claims>>

\* lines 329-332: for task in batch: queues[source].put(task), which blocks while the queue is full
ParPut ==
    /\ fpc = "put"
    /\ IF fbatch = <<>> \/ stop_event
       THEN /\ fbatch' = <<>>
            /\ fsrcs' = Tail(fsrcs)
            /\ fpc' = "forsrc"
            /\ UNCHANGED queue
       ELSE /\ Len(queue[Head(fsrcs)]) < QUEUE_MAXSIZE
            /\ queue' = [queue EXCEPT ![Head(fsrcs)] = Append(@, Head(fbatch))]
            /\ fbatch' = Tail(fbatch)
            /\ UNCHANGED <<fpc, fsrcs>>
    /\ UNCHANGED <<cand, poolVars, phash, downloaded_count, manVars, rested, dbVars, fsVars, seqVars, faults, stop_event, stats_lock,
                   total_bytes_downloaded, workerLocals, cycles, claims>>

\* lines 335-346: leave the loop when no row is pending, else sleep and loop again
ParCheckPending ==
    /\ fpc = "pending"
    /\ IF \A c \in Cands : status[c] # "pending"
       THEN /\ fpc' = "shutdown"
            /\ UNCHANGED cycles
       ELSE /\ cycles < MaxCycles
            /\ cycles' = cycles + 1
            /\ fpc' = "while"
    /\ UNCHANGED <<cand, poolVars, phash, downloaded_count, manVars, rested, dbVars, fsVars, seqVars, faults, queue, stop_event, stats_lock,
                   total_bytes_downloaded, workerLocals, fsrcs, fbatch, claims>>

\* line 352: stop_event.set()
ParShutdown ==
    /\ fpc = "shutdown"
    /\ stop_event' = TRUE
    /\ fsrcs' = ActiveSources
    /\ fpc' = "pill"
    /\ UNCHANGED <<cand, poolVars, phash, downloaded_count, manVars, rested, dbVars, fsVars, seqVars, faults, queue, stats_lock,
                   total_bytes_downloaded, workerLocals, fbatch, cycles, claims>>

\* lines 354-355: queue.put(None) for every queue, blocking while the queue is full
ParPoisonPill ==
    /\ fpc = "pill"
    /\ IF fsrcs = <<>>
       THEN /\ fpc' = "join"
            /\ UNCHANGED <<queue, fsrcs>>
       ELSE /\ Len(queue[Head(fsrcs)]) < QUEUE_MAXSIZE
            /\ queue' = [queue EXCEPT ![Head(fsrcs)] = Append(@, NULL)]
            /\ fsrcs' = Tail(fsrcs)
            /\ UNCHANGED fpc
    /\ UNCHANGED <<cand, poolVars, phash, downloaded_count, manVars, rested, dbVars, fsVars, seqVars, faults, stop_event, stats_lock,
                   total_bytes_downloaded, workerLocals, fbatch, cycles, claims>>

\* lines 357-370: thread.join(timeout=5) for every thread, final stats, return:
\* the daemon threads still running end with the process
ParJoin ==
    /\ fpc = "join"
    /\ fpc' = "exit"
    /\ wpc' = [s \in Sources |-> IF wpc[s] \in {"absent", "done"} THEN wpc[s] ELSE "killed"]
    /\ stats_lock' = "free"
    /\ wtask' = [s \in Sources |-> NULL]
    /\ wbytes' = [s \in Sources |-> 0]
    /\ werr' = [s \in Sources |-> "none"]
    /\ UNCHANGED <<cand, poolVars, phash, downloaded_count, manVars, rested, dbVars, fsVars, seqVars, faults, queue, stop_event,
                   total_bytes_downloaded, fsrcs, fbatch, cycles, claims>>

\* download_worker, lines 111-122: leave when stop_event is set, else take a
\* task (queue.get returns nothing while the queue is empty)
WGet(s) ==
    /\ wpc[s] = "get"
    /\ IF stop_event
       THEN /\ wpc' = [wpc EXCEPT ![s] = "done"]
            /\ UNCHANGED <<queue, wtask>>
       ELSE /\ queue[s] # <<>>
            /\ queue' = [queue EXCEPT ![s] = Tail(@)]
            /\ IF Head(queue[s]) = NULL
               THEN /\ wpc' = [wpc EXCEPT ![s] = "done"]
                    /\ UNCHANGED wtask
               ELSE /\ wpc' = [wpc EXCEPT ![s] = "cap"]
                    /\ wtask' = [wtask EXCEPT ![s] = Head(queue[s])]
    /\ UNCHANGED <<cand, poolVars, phash, downloaded_count, manVars, rested, dbVars, fsVars, seqVars, faults, stop_event, stats_lock,
                   total_bytes_downloaded, wbytes, werr, feederLocals, claims>>

\* lines 125-126: with stats_lock: if total_bytes_downloaded >= MAX_STORAGE_BYTES
WCap(s) ==
    /\ wpc[s] = "cap"
    /\ stats_lock = "free"
    /\ IF total_bytes_downloaded >= MAX_STORAGE_BYTES
       THEN /\ stats_lock' = s
            /\ wpc' = [wpc EXCEPT ![s] = "putback"]
       ELSE /\ wpc' = [wpc EXCEPT ![s] = "mark"]
            /\ UNCHANGED stats_lock
    /\ UNCHANGED <<cand, poolVars, phash, downloaded_count, manVars, rested, dbVars, fsVars, seqVars, faults, queue, stop_event,
                   total_bytes_downloaded, wtask, wbytes, werr, feederLocals, claims>>

\* lines 127-129, still inside the lock: queue.put(task) (blocks while the
\* queue is full), stop_event.set(), break
WPutBack(s) ==
    /\ wpc[s] = "putback"
    /\ Len(queue[s]) < QUEUE_MAXSIZE
    /\ queue' = [queue EXCEPT ![s] = Append(@, wtask[s])]
    /\ stop_event' = TRUE
    /\ stats_lock' = "free"
    /\ wpc' = [wpc EXCEPT ![s] = "done"]
    /\ wtask' = [wtask EXCEPT ![s] = NULL]
    /\ UNCHANGED <<cand, poolVars, phash, downloaded_count, manVars, rested, dbVars, fsVars, seqVars, faults,
                   total_bytes_downloaded, wbytes, werr, feederLocals, claims>>

\* lines 132-136: UPDATE candidates SET status='downloading' WHERE id=?; commit
WMark(s) ==
    /\ wpc[s] = "mark"
    /\ status' = mark_candidate(status, wtask[s], "downloading")
    /\ claims' = [claims EXCEPT ![wtask[s]] = @ + 1]
    /\ wpc' = [wpc EXCEPT ![s] = "dest"]
    /\ UNCHANGED <<cand, poolVars, phash, downloaded_count, manVars, rested, local_path, downloaded_bytes, sha256_local, error, stats, fsVars,
                   seqVars, faults, queue, stop_event, stats_lock, total_bytes_downloaded,
                   wtask, wbytes, werr, feederLocals>>

\* lines 139-153: file name; if dest.exists(): commit the row as downloaded with the file's size
WDest(s) ==
    /\ wpc[s] = "dest"
    /\ LET c == wtask[s]
           dest == DestOf(c)
       IN IF Exists(files[dest])
          THEN /\ status' = mark_candidate(status, c, "downloaded")
               /\ local_path' = [local_path EXCEPT ![c] = dest]
               /\ downloaded_bytes' = [downloaded_bytes EXCEPT ![c] = files[dest].size]
               /\ sha256_local' = [sha256_local EXCEPT ![c] = compute_sha256(files[dest])]
               /\ wpc' = [wpc EXCEPT ![s] = "lock"]
          ELSE /\ wpc' = [wpc EXCEPT ![s] = "http"]
               /\ UNCHANGED <<status, local_path, downloaded_bytes, sha256_local>>
    /\ UNCHANGED <<cand, poolVars, phash, downloaded_count, manVars, rested, error, stats, fsVars, seqVars, faults, queue, stop_event,
                   stats_lock, total_bytes_downloaded, wtask, wbytes, werr, feederLocals, claims>>

\* lines 155-160: with stats_lock: per-source counters; queue.task_done();
\* continue; lines 219-227, leaving the handler of e: the same, then
\* time.sleep(rate_limit)
WLock(s) ==
    /\ wpc[s] = "lock"
    /\ stats_lock = "free"
    /\ wpc' = [wpc EXCEPT ![s] = "get"]
    /\ wtask' = [wtask EXCEPT ![s] = NULL]
    /\ wbytes' = [wbytes EXCEPT ![s] = 0]
    /\ rested' = IF werr[s] # "none" THEN [rested EXCEPT ![s] = TRUE] ELSE rested
    /\ werr' = [werr EXCEPT ![s] = "none"]
    /\ UNCHANGED <<cand, poolVars, phash, downloaded_count, manVars, dbVars, fsVars, seqVars, faults, queue, stop_event, stats_lock,
                   total_bytes_downloaded, feederLocals, claims>>

\* lines 164-169: session.get, raise_for_status (either may raise, HTTPError
\* 429 Too Many Requests included),
\* open(dest_tmp, "wb"): the temp file is created, or truncated when it is there
WHttp(s) ==
    /\ wpc[s] = "http"
    /\ \/ /\ cand[wtask[s]].content # NotFound
          /\ parts' = [parts EXCEPT ![DestOf(wtask[s])] =
                          [data |-> cand[wtask[s]].content, size |-> 0]]
          /\ wbytes' = [wbytes EXCEPT ![s] = 0]
          /\ wpc' = [wpc EXCEPT ![s] = "stream"]
          /\ UNCHANGED werr
       \/ /\ wpc' = [wpc EXCEPT ![s] = "fail"]
          /\ \E e \in {"exception", "429"} : werr' = [werr EXCEPT ![s] = e]
          /\ UNCHANGED <<parts, wbytes>>
    /\ rested' = request(s)
    /\ UNCHANGED <<cand, poolVars, phash, downloaded_count, manVars, dbVars, files, seqVars, faults, queue, stop_event, stats_lock,
                   total_bytes_downloaded, wtask, feederLocals, claims>>

\* f.write(chunk) appends one chunk to the file
WriteChunk(f) == [f EXCEPT !.size = @ + 1]

\* lines 170-173: for chunk in r.iter_content(): f.write(chunk); bytes_written
\* += len(chunk); the transfer may raise between two chunks
WStream(s) ==
    /\ wpc[s] = "stream"
    /\ LET c == wtask[s]
           dest == DestOf(c)
       IN IF ~stream_done(wbytes[s], c)
          THEN \/ /\ wbytes' = [wbytes EXCEPT ![s] = @ + 1]
                  /\ parts' = [parts EXCEPT ![dest] = WriteChunk(@)]
                  /\ UNCHANGED <<wpc, werr>>
               \/ /\ wpc' = [wpc EXCEPT ![s] = "fail"]
                  /\ werr' = [werr EXCEPT ![s] = "exception"]
                  /\ UNCHANGED <<parts, wbytes>>
          ELSE /\ wpc' = [wpc EXCEPT ![s] = "rename"]
               /\ UNCHANGED <<parts, wbytes, werr>>
    /\ UNCHANGED <<cand, poolVars, phash, downloaded_count, manVars, rested, dbVars, files, seqVars, faults, queue, stop_event, stats_lock,
                   total_bytes_downloaded, wtask, feederLocals, claims>>

\* line 176: os.replace(dest_tmp, dest)
WRename(s) ==
    /\ wpc[s] = "rename"
    /\ LET dest == DestOf(wtask[s]) IN
       /\ files' = [files EXCEPT ![dest] = parts[dest]]
       /\ parts' = [parts EXCEPT ![dest] = NoFile]
    /\ wpc' = [wpc EXCEPT ![s] = "verify"]
    /\ UNCHANGED <<cand, poolVars, phash, downloaded_count, manVars, rested, dbVars, seqVars, faults, queue, stop_event, stats_lock,
                   total_bytes_downloaded, wtask, wbytes, werr, feederLocals, claims>>

\* lines 179-193: Image.open(dest); below 900 x 900: unlink the file, mark the
\* row 'rejected', next task; an exception in the block is swallowed
WVerify(s) ==
    /\ wpc[s] = "verify"
    /\ LET c == wtask[s]
           dest == DestOf(c)
       IN IF IsSmall(files[dest].data)
          THEN /\ files' = [files EXCEPT ![dest] = NoFile]
               /\ status' = mark_candidate(status, c, "rejected")
               /\ error' = [error EXCEPT ![c] = "dimensions"]
               /\ wpc' = [wpc EXCEPT ![s] = "get"]
               /\ wtask' = [wtask EXCEPT ![s] = NULL]
               /\ wbytes' = [wbytes EXCEPT ![s] = 0]
               /\ rested' = [rested EXCEPT ![s] = TRUE]
          ELSE /\ wpc' = [wpc EXCEPT ![s] = "success"]
               /\ UNCHANGED <<files, status, error, wtask, wbytes, rested>>
    /\ UNCHANGED <<cand, poolVars, phash, downloaded_count, manVars, local_path, downloaded_bytes, sha256_local, stats, parts, seqVars,
                   faults, queue, stop_event, stats_lock, total_bytes_downloaded,
                   werr, feederLocals, claims>>

\* lines 196-202: compute_sha256(dest), UPDATE ... status='downloaded',
\* local_path, downloaded_bytes=bytes_written, sha256_local; commit
WSuccess(s) ==
    /\ wpc[s] = "success"
    /\ LET c == wtask[s]
           dest == DestOf(c)
       IN /\ status' = mark_candidate(status, c, "downloaded")
          /\ local_path' = [local_path EXCEPT ![c] = dest]
          /\ downloaded_bytes' = [downloaded_bytes EXCEPT ![c] = wbytes[s]]
          /\ sha256_local' = [sha256_local EXCEPT ![c] = compute_sha256(files[dest])]
    /\ wpc' = [wpc EXCEPT ![s] = "count"]
    /\ UNCHANGED <<cand, poolVars, phash, downloaded_count, manVars, rested, error, stats, fsVars, seqVars, faults, queue, stop_event,
                   stats_lock, total_bytes_downloaded, wtask, wbytes, werr, feederLocals, claims>>

\* lines 204-227: with stats_lock: total_bytes_downloaded += bytes_written; task_done; next task
WCount(s) ==
    /\ wpc[s] = "count"
    /\ stats_lock = "free"
    /\ total_bytes_downloaded' = total_bytes_downloaded + wbytes[s]
    /\ wpc' = [wpc EXCEPT ![s] = "get"]
    /\ wtask' = [wtask EXCEPT ![s] = NULL]
    /\ wbytes' = [wbytes EXCEPT ![s] = 0]
    /\ rested' = [rested EXCEPT ![s] = TRUE]
    /\ UNCHANGED <<cand, poolVars, phash, downloaded_count, manVars, dbVars, fsVars, seqVars, faults, queue, stop_event, stats_lock,
                   werr, feederLocals, claims>>

\* except Exception as e, lines 211-217: UPDATE ... status='failed', error=str(e); commit
WFail(s) ==
    /\ wpc[s] = "fail"
    /\ status' = mark_candidate(status, wtask[s], "failed")
    /\ error' = [error EXCEPT ![wtask[s]] = werr[s]]
    /\ wpc' = [wpc EXCEPT ![s] = "lock"]
    /\ UNCHANGED <<cand, poolVars, phash, downloaded_count, manVars, rested, local_path, downloaded_bytes, sha256_local, stats, fsVars, seqVars,
                   faults, queue, stop_event, stats_lock, total_bytes_downloaded,
                   wtask, wbytes, werr, feederLocals, claims>>

download_worker(s) ==
    \/ WGet(s)
    \/ WCap(s)
    \/ WPutBack(s)
    \/ WMark(s)
    \/ WDest(s)
    \/ WLock(s)
    \/ WHttp(s)
    \/ WStream(s)
    \/ WRename(s)
    \/ WVerify(s)
    \/ WSuccess(s)
    \/ WCount(s)
    \/ WFail(s)

\* ------------------------------------------------------------ specifications
Next ==
    \/ CappedStart
    \/ CappedWhile
    \/ CappedFor
    \/ CappedDest
    \/ CappedGet
    \/ CappedStream
    \/ CappedSetTotal
    \/ CappedMark
    \/ CappedRaise
    \/ DedupeExact
    \/ RetryFailed

Spec == Init /\ [][Next]_vars

\* the same programs over a table of one more row
InitWide ==
    /\ InitStore(NCand + 1, {"wikimedia_commons"}, {1, 2})
    /\ InitCapped
    /\ InitPool
    /\ InitParallel
    /\ faults = 0
    /\ rested = [s \in Sources |-> TRUE]
    /\ InitManifests(0)

SpecWide == InitWide /\ [][Next]_vars

\* ------------------------------------------------ download_parallel_sources
\* compute_phash(img): the average hash of the picture as an int; pictures
\* that look alike get hashes that differ in few bits
compute_phash(k) == CASE k = 3 -> 1 [] k = 5 -> 3 [] OTHER -> 0

\* hamming_distance(hash1, hash2) == bin(hash1 ^ hash2).count("1")
hamming_distance(hash1, hash2) ==
    Cardinality({b \in 0..(PHASH_BITS - 1) :
                    (hash1 \div (2 ^ b)) % 2 # (hash2 \div (2 ^ b)) % 2})

\* get_total_bytes(con): SELECT SUM(downloaded_bytes) ... WHERE downloaded_bytes IS NOT NULL
get_total_bytes ==
    SumBytes({c \in Cands : downloaded_bytes[c] # NULL}, downloaded_bytes)

\* increment_stat of this module: INSERT OR REPLACE ... COALESCE(v, 0) + 1,
\* which creates the key when the stats table does not have it
upsert_stat(key) ==
    [k \in DOMAIN stats \cup {key} |->
        IF k = key THEN (IF key \in DOMAIN stats THEN stats[key] ELSE 0) + 1
        ELSE stats[k]]

\* variables download_from_source never writes
\* get_domain_from_url(url), lines 43-45: urlparse(url).netloc
get_domain_from_url(url) == url.netloc

\* image_url LIKE '%domain%', line 154: the domain occurs somewhere in the
\* URL, as its host or inside its query string
like_domain(url, d) == d = url.netloc \/ d = url.uri

\* lines 150-159: the batch of download_from_source: pending rows whose
\* image_url is LIKE the domain (rows without known width or height),
\* LIMIT batch_size
pick_batch_of_domain(d, batch_size) ==
    {Take(p, batch_size) :
        p \in Perms({c \in Cands : status[c] = "pending" /\ like_domain(image_url[c], d)})}

srcFrame == <<cand, poolVars, phash, content_length, bytes_written, claimed_total, sha256, parVars, manVars>>

\* download_from_source(domain, 50, images_per_source), lines 131-140
SrcStart ==
    /\ pc = "idle"
    /\ runs < MaxRuns
    /\ runs' = runs + 1
    /\ pc' = "s_while"
    /\ downloaded_count' = 0
    /\ UNCHANGED <<srcFrame, dbVars, fsVars, total_bytes, batch, cid, attempt, faults, rested>>

\* leaving the while loop, lines 286-288: con.close(); return downloaded_count
SrcFinish ==
    /\ pc' = "idle"
    /\ batch' = <<>>
    /\ total_bytes' = 0
    /\ downloaded_count' = 0

\* lines 142-163: while downloaded_count < max_images; cap check; batch of
\* pending rows of the domain; if not batch: break
SrcWhile ==
    /\ pc = "s_while"
    /\ IF downloaded_count >= max_images \/ get_total_bytes >= MAX_STORAGE_BYTES
       THEN SrcFinish
       ELSE \E b \in pick_batch_of_domain(domain, SOURCE_BATCH) :
              IF b = <<>>
              THEN SrcFinish
              ELSE /\ batch' = b
                   /\ total_bytes' = get_total_bytes
                   /\ pc' = "s_for"
                   /\ UNCHANGED downloaded_count
    /\ UNCHANGED <<srcFrame, dbVars, fsVars, cid, attempt, runs, faults, rested>>

\* lines 165-175: the two breaks, then mark_candidate(con, cid, "downloading"); commit
SrcFor ==
    /\ pc = "s_for"
    /\ IF batch = <<>>
       THEN /\ pc' = "s_while"
            /\ UNCHANGED <<status, batch, cid>>
       ELSE IF downloaded_count >= max_images \/ get_total_bytes >= MAX_STORAGE_BYTES
       THEN /\ pc' = "s_while"
            /\ batch' = <<>>
            /\ UNCHANGED <<status, cid>>
       ELSE /\ cid' = Head(batch)
            /\ batch' = Tail(batch)
            /\ status' = mark_candidate(status, Head(batch), "downloading")
            /\ pc' = "s_dest"
    /\ UNCHANGED <<srcFrame, local_path, downloaded_bytes, sha256_local, error, stats, fsVars,
                   total_bytes, attempt, downloaded_count, runs, faults, rested>>

\* lines 177-195: file name; if dest.exists(): commit the row as downloaded
\* with the file's size and digest, continue; else enter the retry loop
SrcDest ==
    /\ pc = "s_dest"
    /\ LET dest == DestOf(cid) IN
       IF Exists(files[dest])
       THEN /\ status' = mark_candidate(status, cid, "downloaded")
            /\ local_path' = [local_path EXCEPT ![cid] = dest]
            /\ downloaded_bytes' = [downloaded_bytes EXCEPT ![cid] = files[dest].size]
            /\ sha256_local' = [sha256_local EXCEPT ![cid] = compute_sha256(files[dest])]
            /\ stats' = upsert_stat("total_files_downloaded")
            /\ downloaded_count' = downloaded_count + 1
            /\ pc' = "s_for"
            /\ cid' = NULL
            /\ UNCHANGED attempt
       ELSE /\ attempt' = 0
            /\ pc' = "s_get"
            /\ UNCHANGED <<status, local_path, downloaded_bytes, sha256_local, stats,
                         downloaded_count, cid>>
    /\ UNCHANGED <<srcFrame, error, fsVars, total_bytes, batch, runs, faults, rested>>

\* except Exception as e, lines 267-281: sleep and retry, or mark failed
\* after the last attempt
SrcHandler ==
    IF may_retry(attempt)
    THEN /\ attempt' = attempt + 1
         /\ pc' = "s_get"
         /\ rested' = time_sleep
         /\ UNCHANGED <<status, error, stats, cid>>
    ELSE /\ status' = mark_candidate(status, cid, "failed")
         /\ error' = [error EXCEPT ![cid] = "exception"]
         /\ stats' = upsert_stat("total_failed")
         /\ pc' = "s_for"
         /\ cid' = NULL
         /\ attempt' = 0
         /\ UNCHANGED rested

\* lines 198-205: GET, raise_for_status, write the body to the .tmp file;
\* an exception here is outside the inner try, so a .tmp file that was
\* opened is left behind
SrcGet ==
    /\ pc = "s_get"
    /\ LET dest == DestOf(cid)
           k == cand[cid].content
       IN \/ /\ k # NotFound
             /\ parts' = [parts EXCEPT ![dest] = [data |-> k, size |-> SizeOf(k)]]
             /\ pc' = "s_check"
             /\ rested' = request(cand[cid].source)
             /\ UNCHANGED <<status, error, stats, cid, attempt, faults>>
          \/ /\ k = NotFound
             /\ SrcHandler
             /\ UNCHANGED <<parts, faults>>
          \/ /\ k # NotFound
             /\ faults < MaxFaults
             /\ faults' = faults + 1
             /\ parts' \in {parts, [parts EXCEPT ![dest] = [data |-> k, size |-> 0]]}
             /\ SrcHandler
    /\ UNCHANGED <<srcFrame, local_path, downloaded_bytes, sha256_local, files, total_bytes,
                   batch, downloaded_count, runs>>

\* lines 207-265: verify the image; too small: unlink, 'skipped'; the
\* perceptual check: rows with phash = the new hash that are 'downloaded',
\* dist = hamming_distance(phash, phash); a hit: unlink, 'duplicate'; else
\* rename to dest and mark 'downloaded' (no phash is written); an exception
\* in the block unlinks the .tmp file if it is still there and is handled
\* by the retry loop
SrcCheck ==
    /\ pc = "s_check"
    /\ LET dest == DestOf(cid)
           f == parts[dest]
           new_phash == compute_phash(f.data)
           existing == {e \in Cands : phash[e] = new_phash /\ status[e] = "downloaded" /\ e # cid}
           dist == hamming_distance(new_phash, new_phash)
       IN \/ /\ IF IsSmall(f.data)
                THEN /\ parts' = [parts EXCEPT ![dest] = NoFile]
                     /\ status' = mark_candidate(status, cid, "skipped")
                     /\ error' = [error EXCEPT ![cid] = "Image too small"]
                     /\ stats' = upsert_stat("total_skipped")
                     /\ UNCHANGED <<files, local_path, downloaded_bytes, sha256_local,
                                  downloaded_count, rested>>
                ELSE IF ENABLE_PERCEPTUAL_HASH /\ existing # {} /\ dist <= PERCEPTUAL_HASH_THRESHOLD
                THEN /\ parts' = [parts EXCEPT ![dest] = NoFile]
                     /\ status' = mark_candidate(status, cid, "duplicate")
                     /\ error' = [error EXCEPT ![cid] = "Duplicate of candidate"]
                     /\ stats' = upsert_stat("total_duplicates")
                     /\ rested' = time_sleep
                     /\ UNCHANGED <<files, local_path, downloaded_bytes, sha256_local,
                                  downloaded_count>>
                ELSE /\ files' = [files EXCEPT ![dest] = f]
                     /\ parts' = [parts EXCEPT ![dest] = NoFile]
                     /\ status' = mark_candidate(status, cid, "downloaded")
                     /\ local_path' = [local_path EXCEPT ![cid] = dest]
                     /\ downloaded_bytes' = [downloaded_bytes EXCEPT ![cid] = f.size]
                     /\ sha256_local' = [sha256_local EXCEPT ![cid] = compute_sha256(f)]
                     /\ stats' = upsert_stat("total_files_downloaded")
                     /\ downloaded_count' = downloaded_count + 1
                     /\ rested' = time_sleep
                     /\ UNCHANGED error
             /\ pc' = "s_for"
             /\ cid' = NULL
             /\ attempt' = 0
             /\ UNCHANGED faults
          \/ /\ faults < MaxFaults
             /\ faults' = faults + 1
             /\ parts' = [parts EXCEPT ![dest] = NoFile]
             /\ files' \in {files, [files EXCEPT ![dest] = f]}
             /\ SrcHandler
             /\ UNCHANGED <<local_path, downloaded_bytes, sha256_local, downloaded_count>>
    /\ UNCHANGED <<srcFrame, total_bytes, batch, runs>>

\* download_capped with dedupe_exact run from a second shell, over three
\* rows whose URLs serve the same bytes
InitMeanwhile ==
    /\ InitStore(NCand + 1, {"wikimedia_commons"}, {2})
    /\ InitCapped
    /\ InitPool
    /\ InitParallel
    /\ faults = 0
    /\ rested = [s \in Sources |-> TRUE]
    /\ InitManifests(0)

NextMeanwhile ==
    \/ Next
    \/ DedupeExactMeanwhile

SpecMeanwhile == InitMeanwhile /\ [][NextMeanwhile]_vars

\* one process of the pool over the rows of its domain
InitSources ==
    /\ InitStore(NCand, {"wikimedia_commons"}, {1, 2, 3, NotFound, 5})
    /\ InitCapped
    /\ InitPool
    /\ InitParallel
    /\ faults = 0
    /\ rested = [s \in Sources |-> TRUE]
    /\ InitManifests(0)

NextSources ==
    \/ SrcStart
    \/ SrcWhile
    \/ SrcFor
    \/ SrcDest
    \/ SrcGet
    \/ SrcCheck

SpecSources == InitSources /\ [][NextSources]_vars

\* mp.Pool, lines 334-336: the processes of the pool run at the same time;
\* the operating system takes the running process off the processor
\* between two of its steps and runs the other one
SrcSwitch ==
    /\ peer.pc # "none"
    /\ pc' = peer.pc
    /\ batch' = peer.batch
    /\ cid' = peer.cid
    /\ attempt' = peer.attempt
    /\ total_bytes' = peer.total_bytes
    /\ downloaded_count' = peer.downloaded_count
    /\ domain' = peer.domain
    /\ peer' = [pc |-> pc, batch |-> batch, cid |-> cid, attempt |-> attempt,
                total_bytes |-> total_bytes, downloaded_count |-> downloaded_count,
                domain |-> domain]
    /\ UNCHANGED <<cand, image_url, phash, content_length, bytes_written, claimed_total, sha256,
                   parVars, manVars, dbVars, fsVars, runs, faults, rested>>

\* get_top_sources and main(), lines 291-336: rows found through Europeana
\* whose URLs have two hosts, and one process of the pool for each host
InitProcs ==
    /\ InitStore(NCand, {"europeana"}, {1, 3})
    /\ \A c \in Cands : cand[c].sha1 = NULL
    /\ InitCapped
    /\ image_url \in [Cands -> EuropeanaUrls]
    /\ \E d1, d2 \in {get_domain_from_url(image_url[c]) : c \in Cands} :
          /\ d1 # d2
          /\ domain = d1
          /\ peer = [NoPeer EXCEPT !.pc = "idle", !.domain = d2]
    /\ InitParallel
    /\ faults = 0
    /\ rested = [s \in Sources |-> TRUE]
    /\ InitManifests(0)

NextProcs ==
    \/ NextSources
    \/ SrcSwitch

SpecProcs == InitProcs /\ [][NextProcs]_vars

\* the sequential tools with dedupe_perceptual, over three rows of pictures
\* of one unit each; the first two rows carry the same sha1 or none
InitPhash ==
    /\ InitStore(NCand + 1, {"wikimedia_commons"}, {2, 3, 5})
    /\ cand[1].sha1 = cand[2].sha1
    /\ cand[NCand + 1].sha1 = NULL
    /\ InitCapped
    /\ InitPool
    /\ InitParallel
    /\ faults = 0
    /\ rested = [s \in Sources |-> TRUE]
    /\ InitManifests(0)

NextPhash ==
    \/ Next
    \/ DedupePerceptual

SpecPhash == InitPhash /\ [][NextPhash]_vars

\* download_parallel over rows of two sources.  Only the Commons discovery
\* stores a sha1 (spiders/commons_discover.py); the other discoveries insert
\* (source, query, title, page_url, image_url, status) and leave it NULL
InitPar ==
    /\ InitStore(NCand, Sources, {1, 3})
    /\ \A c \in Cands : cand[c].sha1 # NULL => cand[c].source = "wikimedia_commons"
    /\ cand[1].source = "wikimedia_commons"
    /\ InitCapped
    /\ InitPool
    /\ InitParallel
    /\ faults = 0
    /\ rested = [s \in Sources |-> TRUE]
    /\ InitManifests(0)

NextPar ==
    \/ ParStart
    \/ ParWhile
    \/ ParForSource
    \/ ParPut
    \/ ParCheckPending
    \/ ParShutdown
    \/ ParPoisonPill
    \/ ParJoin
    \/ \E s \in Sources : download_worker(s)

SpecPar == InitPar /\ [][NextPar]_vars

\* lines 54-56 and 373-374: the script is started again after main() has
\* returned: a new process, whose module-level state is the initial one
ParAgain ==
    /\ fpc = "exit"
    /\ runs < MaxRuns
    /\ runs' = runs + 1
    /\ queue' = [s \in Sources |-> <<>>]
    /\ stop_event' = FALSE
    /\ stats_lock' = "free"
    /\ total_bytes_downloaded' = 0
    /\ wpc' = [s \in Sources |-> "absent"]
    /\ wtask' = [s \in Sources |-> NULL]
    /\ wbytes' = [s \in Sources |-> 0]
    /\ werr' = [s \in Sources |-> "none"]
    /\ fpc' = "idle"
    /\ fsrcs' = <<>>
    /\ fbatch' = <<>>
    /\ cycles' = 0
    /\ UNCHANGED <<cand, poolVars, phash, downloaded_count, manVars, rested, dbVars, fsVars, capVars,
                   faults, claims>>

\* download_parallel run several times in a row
NextAgain ==
    \/ NextPar
    \/ ParAgain

SpecAgain == InitPar /\ [][NextAgain]_vars

\* download_parallel over a store where one source has more pending rows
\* than its queue holds and a second source has one pending row; the feed
\* loop is followed for one pass (cycles starts at its cap)
InitBusy ==
    /\ InitStore(QUEUE_MAXSIZE + 2, Sources, {1, 3})
    /\ \A c \in Cands :
          /\ cand[c].sha1 = NULL
          /\ cand[c].source = IF c <= QUEUE_MAXSIZE + 1 THEN "wikimedia_commons" ELSE "europeana"
          /\ cand[c].content = IF c = QUEUE_MAXSIZE + 1 THEN 3 ELSE 1
    /\ InitCapped
    /\ InitPool
    /\ queue = [s \in Sources |-> <<>>]
    /\ stop_event = FALSE
    /\ stats_lock = "free"
    /\ total_bytes_downloaded = 0
    /\ wpc = [s \in Sources |-> "absent"]
    /\ wtask = [s \in Sources |-> NULL]
    /\ wbytes = [s \in Sources |-> 0]
    /\ werr = [s \in Sources |-> "none"]
    /\ fpc = "idle"
    /\ fsrcs = <<>>
    /\ fbatch = <<>>
    /\ cycles = MaxCycles
    /\ claims = [c \in Cands |-> 0]
    /\ faults = 0
    /\ rested = [s \in Sources |-> TRUE]
    /\ InitManifests(0)

SpecBusy == InitBusy /\ [][NextPar]_vars

\* download_parallel over a store where one source has enough pending rows
\* of 2 units to reach the cap while its queue is full and rows are left to
\* feed
InitJam ==
    /\ InitStore(QUEUE_MAXSIZE + 3, {"wikimedia_commons"}, {1})
    /\ \A c \in Cands : cand[c].sha1 = NULL
    /\ InitCapped
    /\ InitPool
    /\ queue = [s \in Sources |-> <<>>]
    /\ stop_event = FALSE
    /\ stats_lock = "free"
    /\ total_bytes_downloaded = 0
    /\ wpc = [s \in Sources |-> "absent"]
    /\ wtask = [s \in Sources |-> NULL]
    /\ wbytes = [s \in Sources |-> 0]
    /\ werr = [s \in Sources |-> "none"]
    /\ fpc = "idle"
    /\ fsrcs = <<>>
    /\ fbatch = <<>>
    /\ cycles = 0
    /\ claims = [c \in Cands |-> 0]
    /\ faults = 0
    /\ rested = [s \in Sources |-> TRUE]
    /\ InitManifests(0)

SpecJam == InitJam /\ [][NextPar]_vars

(***************************************************************************)
(* iiif_harvest_manifest.py                                                *)
(***************************************************************************)
Mans == DOMAIN man

harvestLocals == <<hpc, hrows, mid, service_ids>>
otherVars == <<cand, poolVars, dbVars, phash, downloaded_count, fsVars, capVars, faults, rested, parVars>>

unfinished_manifests ==
    Take(SelectSeq([i \in 1..Len(man) |-> i], LAMBDA m : man_status[m] # "done"),
         HARVEST_BATCH)

\* SELECT ... FROM manifests WHERE status='pending' ORDER BY id ASC LIMIT ?
pending_manifests ==
    Take(SelectSeq([i \in 1..Len(man) |-> i], LAMBDA m : man_status[m] = "pending"),
         HARVEST_BATCH)

\* main(), lines 101-111: count the pending manifests, return when there is none
HarvestStart ==
    /\ hpc \in {"idle", "exit"}
    /\ runs < MaxRuns
    /\ runs' = runs + 1
    /\ hpc' = IF \A m \in Mans : man_status[m] # "pending" THEN "exit" ELSE "while"
    /\ UNCHANGED <<otherVars, man, man_status, man_error, hrows, mid, service_ids,
                   harvested, picked>>

\* lines 119-130: while True: select a batch of pending manifests; break when it is empty
HarvestWhile ==
    /\ hpc = "while"
    /\ IF pending_manifests = <<>>
       THEN /\ hpc' = "exit"
            /\ UNCHANGED hrows
       ELSE /\ hrows' = pending_manifests
            /\ hpc' = "for"
    /\ UNCHANGED <<otherVars, runs, man, man_status, man_error, mid, service_ids, harvested, picked>>

\* lines 132-140: for mid, ... in rows: UPDATE manifests SET status='downloading'; commit
HarvestFor ==
    /\ hpc = "for"
    /\ IF hrows = <<>>
       THEN /\ hpc' = "while"
            /\ UNCHANGED <<hrows, mid, man_status, picked>>
       ELSE /\ mid' = Head(hrows)
            /\ hrows' = Tail(hrows)
            /\ man_status' = [man_status EXCEPT ![Head(hrows)] = "downloading"]
            /\ picked' = [picked EXCEPT ![Head(hrows)] = @ + 1]
            /\ hpc' = "fetch"
    /\ UNCHANGED <<otherVars, runs, man, man_error, service_ids, harvested>>

\* find_iiif_image_services(manifest): the service ids of the manifest, the
\* first occurrence of each, in order
find_iiif_image_services(m) == [k \in 1..man[m].services |-> <<k, 0>>]

insert_always(table, row) == Append(table, row)

\* INSERT OR IGNORE INTO candidates under the unique index on (source, image_url)
insert_or_ignore(table, row) ==
    IF \E i \in DOMAIN table :
          table[i].source = row.source /\ table[i].image_url = row.image_url
    THEN table
    ELSE Append(table, row)

\* lines 144-159: session.get, raise_for_status, r.json() (any of them may
\* raise), find_iiif_image_services; with no service: mark the manifest
\* 'done', commit, continue
HarvestFetch ==
    /\ hpc = "fetch"
    /\ \/ /\ hpc' = "except"
          /\ UNCHANGED <<service_ids, man_status, mid>>
       \/ IF find_iiif_image_services(mid) = <<>>
          THEN /\ man_status' = [man_status EXCEPT ![mid] = "done"]
               /\ hpc' = "for"
               /\ mid' = NULL
               /\ UNCHANGED service_ids
          ELSE /\ service_ids' = find_iiif_image_services(mid)
               /\ hpc' = "insert"
               /\ UNCHANGED <<man_status, mid>>
    /\ UNCHANGED <<otherVars, runs, man, man_error, hrows, harvested, picked>>

\* lines 162-182: for sid in service_ids: INSERT OR IGNORE INTO candidates
\* (the store may raise, sqlite3.OperationalError); after the loop mark the
\* manifest 'done' and commit
HarvestInsert ==
    /\ hpc = "insert"
    /\ IF service_ids # <<>>
       THEN \/ /\ harvested' = insert_or_ignore(harvested,
                                    [source |-> man[mid].source,
                                     image_url |-> iiif_full_image_url(Head(service_ids)),
                                     status |-> "pending", by |-> mid])
               /\ service_ids' = Tail(service_ids)
               /\ UNCHANGED <<hpc, man_status, mid>>
            \/ /\ hpc' = "except"
               /\ UNCHANGED <<harvested, service_ids, man_status, mid>>
       ELSE /\ man_status' = [man_status EXCEPT ![mid] = "done"]
            /\ hpc' = "for"
            /\ mid' = NULL
            /\ UNCHANGED <<harvested, service_ids>>
    /\ UNCHANGED <<otherVars, runs, man, man_error, hrows, picked>>

\* a handler that leaves the manifest as the loop marked it
status_left_downloading == "downloading"

\* line 192: SET status='failed'
status_after_error == "failed"

\* except Exception as e, lines 189-197: print the error, UPDATE manifests
\* SET status='failed', updated_at=...; commit (which also commits the
\* candidates inserted so far); continue
HarvestExcept ==
    /\ hpc = "except"
    /\ man_status' = [man_status EXCEPT ![mid] = status_after_error]
    /\ hpc' = "for"
    /\ mid' = NULL
    /\ service_ids' = <<>>
    /\ UNCHANGED <<otherVars, runs, man, man_error, hrows, harvested, picked>>

InitHarvest ==
    /\ InitStore(NCand, {"wikimedia_commons"}, {1})
    /\ \A c \in Cands : cand[c].sha1 = NULL
    /\ InitCapped
    /\ InitPool
    /\ InitParallel
    /\ faults = 0
    /\ rested = [s \in Sources |-> TRUE]
    /\ InitManifests(NMan)

NextHarvest ==
    \/ HarvestStart
    \/ HarvestWhile
    \/ HarvestFor
    \/ HarvestFetch
    \/ HarvestInsert
    \/ HarvestExcept

SpecHarvest == InitHarvest /\ [][NextHarvest]_vars

\* the same, with the process scheduled until it ends: main() is one
\* sequential program, so a step of it that can be taken is taken
SpecHarvestFair == SpecHarvest /\ WF_manVars(NextHarvest)

\* download_capped runs that may be killed
NextKill ==
    \/ Next
    \/ CappedKill

SpecKill == Init /\ [][NextKill]_vars

\* download_capped over rows some of whose URLs answer 404
InitGone ==
    /\ InitStore(NCand, {"wikimedia_commons"}, {1, NotFound})
    /\ InitCapped
    /\ InitPool
    /\ InitParallel
    /\ faults = 0
    /\ rested = [s \in Sources |-> TRUE]
    /\ InitManifests(0)

SpecGone == InitGone /\ [][Next]_vars

\* the same, with the process scheduled until it ends: main() is one
\* sequential program, so a step of it that can be taken is taken
SpecGoneFair == SpecGone /\ WF_capVars(Next)

\* ------------------------------------------------------------------ claims
\* C1: the tracked total of retained bytes never exceeds the cap, also when
\* the size of a candidate is not known before its download.
C1_BudgetCeiling == stats.total_downloaded_bytes <= MAX_STORAGE_BYTES

\* C2: at the end of any run (downloads, optionally followed by dedupe_exact)
\* the persisted counter equals the sum of downloaded_bytes over the
\* candidates whose status is 'downloaded'.
C2_BudgetAccounting ==
    pc = "idle" =>
        stats.total_downloaded_bytes =
            SumBytes({c \in Cands : status[c] = "downloaded"}, downloaded_bytes)

\* C5: a candidate's local_path is non-null if and only if its status is
\* 'downloaded'.
C5_LocalPathIffDownloaded ==
    \A c \in Cands : (local_path[c] # NULL) <=> (status[c] = "downloaded")

\* C8: run on any state the programs can leave behind, dedupe_exact keeps, for
\* every digest, exactly the lowest-id candidate among the downloaded ones as
\* 'downloaded' (so two candidates with the same content end as one
\* downloaded and one duplicate, whichever was downloaded first).
C8_DedupKeepsLowestId ==
    pc = "idle" =>
        LET D == {c \in Cands : status[c] = "downloaded"}
            after == DedupeExactPass.status
        IN \A c \in D :
             (after[c] = "downloaded") <=>
                 (\A x \in D : sha256_local[x] = sha256_local[c] => c <= x)

\* C9: a step that marks candidates duplicate deletes only their files: every
\* candidate that is 'downloaded' after the step was so before, its record is
\* unchanged and the file at its local_path exists.
C9_OnlyDuplicateFileDeleted ==
    [][(\E d \in Cands : status[d] = "downloaded" /\ status'[d] = "duplicate") =>
          \A o \in Cands : status'[o] = "downloaded" =>
              /\ status[o] = "downloaded"
              /\ local_path'[o] = local_path[o]
              /\ downloaded_bytes'[o] = downloaded_bytes[o]
              /\ sha256_local'[o] = sha256_local[o]
              /\ Exists(files'[local_path'[o]])]_vars

\* C6: when the size probe of the claimed candidate reports a size s with
\* usedBytes + s > capBytes, the candidate is not downloaded: no step of the
\* pre-flight check goes on to the download with such a size, and the step
\* that marks the candidate skipped writes no file and leaves the persisted
\* counter unchanged.
C6_PreflightSkip ==
    [][(pc = "dest" /\ ~Exists(files[DestOf(cid)])) =>
          /\ (pc' = "get" /\ content_length' # NULL) =>
                 stats.total_downloaded_bytes + content_length' <= MAX_STORAGE_BYTES
          /\ pc' # "get" =>
                 /\ status'[cid] = "skipped"
                 /\ fsVars' = fsVars
                 /\ stats'.total_downloaded_bytes = stats.total_downloaded_bytes
                 /\ local_path'[cid] = NULL]_vars

\* Scenario A: two candidates of 2 units under a cap of 3: one downloaded,
\* the other skipped by the pre-flight check, 2 units used at the end of the run.
C6_Witness ==
    /\ pc = "idle"
    /\ \E a, b \in Cands :
          /\ cand[a].content = 1 /\ cand[b].content = 1
          /\ status[a] = "downloaded" /\ status[b] = "skipped"
          /\ downloaded_bytes[a] = 2 /\ downloaded_bytes[b] = NULL
          /\ error[b] = "would exceed storage cap"
          /\ stats.total_downloaded_bytes = 2

\* C3: a candidate is taken to 'downloading' and processed at most once per
\* stay in 'pending' (no row is reset to pending by download_parallel, so at
\* most once in a run), whatever the feeder enqueues.
C3_ExactlyOneClaim == \A c \in Cands : claims[c] <= 1

\* C4: every status is one of the seven of the state machine and every status
\* change is Pending -> Downloading, Downloading -> a terminal status, or
\* Failed -> Pending.
C4_StateMachine ==
    [][LET Terminal == {"downloaded", "failed", "skipped", "duplicate", "perceptual_duplicate"}
           Statuses == {"pending", "downloading"} \cup Terminal
       IN \A c \in Cands :
            /\ status'[c] \in Statuses
            /\ status'[c] # status[c] =>
                  \/ status[c] = "pending" /\ status'[c] = "downloading"
                  \/ status[c] = "downloading" /\ status'[c] \in Terminal
                  \/ status[c] = "failed" /\ status'[c] = "pending"]_vars

\* C7: when two candidates of different sources (two workers) with identical
\* content have both been fetched and hashed and no worker holds either of
\* them any more, one is 'downloaded', the other 'duplicate', and the used
\* bytes of the run are one file's size.
C7_ConcurrentIdentical ==
    \A a, b \in Cands :
        ( /\ a # b
          /\ cand[a].source # cand[b].source
          /\ cand[a].content = cand[b].content
          /\ sha256_local[a] # NULL
          /\ sha256_local[a] = sha256_local[b]
          /\ \A s \in Sources : wtask[s] \notin {a, b} )
        => /\ {status[a], status[b]} = {"downloaded", "duplicate"}
           /\ total_bytes_downloaded = SizeOf(cand[a].content)

C11_DownloadingReclaimed ==
    [][(pc = "while" /\ pc' = "idle" /\ faults' = faults
          /\ total_bytes < MAX_STORAGE_BYTES) =>
          \A c \in Cands : status[c] # "downloading"]_vars

\* C12: when main() of download_parallel has returned, no candidate is left
\* in 'downloading'.
C12_GracefulShutdown ==
    fpc = "exit" => \A c \in Cands : status[c] # "downloading"

\* C13: the shutdown step that puts the poison pills completes: main() never
\* waits to put a pill into a full queue whose worker has left its loop.
C13_PoisonPillCompletes ==
    ~ ( /\ fpc = "pill"
        /\ fsrcs # <<>>
        /\ Len(queue[Head(fsrcs)]) >= QUEUE_MAXSIZE
        /\ wpc[Head(fsrcs)] = "done" )

\* C16: download_capped makes at most MAX_RETRIES attempts for a claimed
\* candidate; it marks the candidate 'failed', with the error recorded, only
\* when the last attempt has failed, and then goes on with the next
\* candidate; a candidate marked 'downloaded' is not marked 'failed'.
C16_BoundedRetry ==
    [][/\ attempt' < MAX_RETRIES
       /\ \A c \in Cands :
            (status'[c] = "failed" /\ status[c] # "failed") =>
                /\ c = cid
                /\ status[c] = "downloading"
                /\ attempt = MAX_RETRIES - 1
                /\ error'[c] = "exception"
                /\ pc' = "for"]_vars

\* one run in which all MAX_RETRIES attempts of a candidate failed and the
\* other candidate was downloaded
C16_Witness ==
    /\ pc = "idle"
    /\ runs = 1
    /\ faults = MAX_RETRIES
    /\ \E c, d \in Cands :
          /\ status[c] = "failed"
          /\ error[c] = "exception"
          /\ stats.total_failed = 1
          /\ status[d] = "downloaded"

\* C19: an error raised while a candidate is processed does not stop the run:
\* whenever download_capped leaves the candidate it had claimed, the
\* candidate is in a terminal status and the run goes on.
C19_ErrorLocality ==
    [][(cid # NULL /\ cid' # cid) =>
          /\ status'[cid] \in {"downloaded", "failed", "skipped", "duplicate",
                               "perceptual_duplicate"}
          /\ pc' # "idle"]_vars

\* C17: a permanent client error is not retried: the step in which a GET of
\* download_capped is answered 404 records the candidate as failed or
\* skipped, whatever the attempt.
C17_PermanentNotRetried ==
    [][(pc = "get" /\ cand[cid].content = NotFound) =>
          status'[cid] \in {"failed", "skipped"}]_vars

\* C18: in download_parallel a candidate whose first request is answered
\* HTTP 429 is not recorded failed by that attempt (it is retried).
C18_RateLimitRetried ==
    [][\A s \in Sources :
          (wpc[s] = "fail" /\ werr[s] = "429") => status'[wtask[s]] # "failed"]_vars

\* C14: a request to a source (the HEAD or a GET of download_capped) goes
\* out only when the pause after the previous request to that source has
\* been slept.
C14_PerSourcePacing ==
    [][(pc = "get" \/ (pc = "dest" /\ ~Exists(files[DestOf(cid)]))) =>
          rested[cand[cid].source]]_vars

C20_ManifestOutcomes ==
    hpc = "exit" =>
        \A m \in Mans :
            /\ picked[m] <= 1
            /\ picked[m] = 1 =>
                 /\ man_status[m] \in {"done", "failed"}
                 /\ man_status[m] = "failed" =>
                      /\ man_error[m] # NULL_TEXT
                      /\ \A i \in DOMAIN harvested : harvested[i].by # m

\* C21: inserting a candidate is idempotent on (source, image URL): no step
\* changes or removes an existing row of IIIF candidates, and no two rows
\* share a source and an image URL, also when two manifests list the same
\* image service.
C21_IdempotentInsert ==
    [][/\ Len(harvested') >= Len(harvested)
       /\ \A i \in DOMAIN harvested : harvested'[i] = harvested[i]
       /\ \A i, j \in DOMAIN harvested' :
             (/\ harvested'[i].source = harvested'[j].source
              /\ harvested'[i].image_url = harvested'[j].image_url) => i = j]_vars

C21_Witness ==
    /\ hpc = "exit"
    /\ harvested # <<>> /\ harvested[1].status = "downloaded"
    /\ \E m1, m2 \in Mans :
          /\ m1 # m2
          /\ man_status[m1] = "done" /\ man_status[m2] = "done"
          /\ man[m1] = [source |-> "wikimedia_commons", services |-> MaxServices]
          /\ man[m2] = man[m1]
    /\ Len(harvested) = MaxServices

\* C22: a manifest is picked up only while it is 'pending' and at most once
\* over all the runs of the harvester.
C22_ConsumedOnce ==
    [][\A m \in Mans :
          picked'[m] # picked[m] => (man_status[m] = "pending" /\ picked[m] = 0)]_vars

C22_Witness ==
    /\ hpc = "exit"
    /\ runs = 2
    /\ \E m1, m2 \in Mans :
          /\ man_status[m1] = "done" /\ picked[m1] = 1
          /\ man_status[m2] = "failed" /\ picked[m2] = 1

\* C23: the step of retry_failed that resets candidates sets every failed
\* candidate to 'pending' with no error and changes nothing else: the
\* status and error of the other candidates, every path, byte count and
\* digest, the files and the counter of downloaded bytes stay as they were.
C23_ResetFrame ==
    [][(\E c \in Cands : status[c] = "failed" /\ status'[c] = "pending") =>
          /\ \A c \in Cands :
                IF status[c] = "failed"
                THEN status'[c] = "pending" /\ error'[c] = NULL_TEXT
                ELSE status'[c] = status[c] /\ error'[c] = error[c]
          /\ local_path' = local_path
          /\ downloaded_bytes' = downloaded_bytes
          /\ sha256_local' = sha256_local
          /\ fsVars' = fsVars
          /\ stats'.total_downloaded_bytes = stats.total_downloaded_bytes]_vars

C23_Witness ==
    /\ pc = "idle" /\ runs = 1 /\ faults = 0
    /\ stats.total_failed = 0
    /\ \E c, d \in Cands :
          /\ cand[c].content = NotFound
          /\ status[c] = "pending"
          /\ status[d] = "downloaded" /\ local_path[d] = DestOf(d)

\* C24: a candidate that is 'failed' retains nothing: unless another
\* candidate owns the same final path, no file is at its final path and no
\* file is at its temp path.
C24_FailedRetainsNothing ==
    \A c \in Cands :
        (status[c] = "failed" /\ \A d \in Cands : local_path[d] # DestOf(c)) =>
            /\ ~Exists(files[DestOf(c)])
            /\ ~Exists(parts[DestOf(c)])

\* C25: once download_capped has handled an exception of a download attempt
\* (by going to the next attempt or by marking the candidate failed), the
\* temp file of the attempt does not exist.
C25_TempFileCleanup ==
    [][(/\ cid # NULL
        /\ pc \in {"get", "stream", "sha", "mark"}
        /\ (attempt' = attempt + 1 \/ status'[cid] = "failed")) =>
          ~Exists(parts'[DestOf(cid)])]_vars

\* C28: run on any state the sequential tools can leave behind,
\* dedupe_perceptual marks a downloaded candidate whose file exists
\* 'perceptual_duplicate' exactly when its hash is within the threshold of
\* the hash of some visited candidate with a smaller id; it then deletes the
\* file and sets the bytes to 0, and the counter is lowered by the freed
\* size.
C28_PerceptualFirstSeenWins ==
    pc = "idle" =>
        LET after == DedupePerceptualPass
            D == {c \in Cands : /\ status[c] = "downloaded" /\ local_path[c] # NULL
                                /\ after.hashes[c] # NULL}
        IN /\ \A c \in D :
                 /\ (after.status[c] = "perceptual_duplicate") <=>
                        \E x \in 1..(c - 1) :
                            /\ after.hashes[x] # NULL
                            /\ hash_difference(after.hashes[c], after.hashes[x])
                                  <= PERCEPTUAL_HASH_THRESHOLD
                 /\ after.status[c] = "perceptual_duplicate" =>
                        /\ ~Exists(after.files[local_path[c]])
                        /\ after.downloaded_bytes[c] = 0
           /\ after.bytes_freed =
                 SumBytes({c \in D : after.status[c] = "perceptual_duplicate"},
                          [c \in Cands |-> IF downloaded_bytes[c] = NULL THEN 0
                                           ELSE downloaded_bytes[c]])

\* C30: the budget counter is increased exactly once for a candidate that
\* ends 'downloaded': when download_capped marks the candidate it fetched
\* 'downloaded', its counter total_bytes stands bytes_written above the
\* value it had when the candidate was claimed, also when an earlier attempt
\* added its bytes and then raised.
C30_CountedOnce ==
    [][(/\ pc = "mark"
        /\ status'[cid] = "downloaded") =>
          total_bytes = claimed_total + bytes_written]_vars

\* C29: when a worker that took a pending candidate from the queue finds the
\* byte counter at or above the cap, the step that handles it leaves the
\* candidate 'skipped' and does not put it back on the queue.
C29_CapReachedSkips ==
    [][\A s \in Sources :
          (wpc[s] = "putback" /\ wpc'[s] # "putback" /\ status[wtask[s]] = "pending") =>
              /\ status'[wtask[s]] = "skipped"
              /\ Len(queue'[s]) <= Len(queue[s])]_vars

\* C26: when a worker of download_parallel finishes a fetched file whose
\* digest is already owned by another 'downloaded' candidate that keeps its
\* own file, the candidate ends 'duplicate', not 'downloaded' and not
\* 'perceptual_duplicate'.
C26_ExactBeforePerceptual ==
    [][\A s \in Sources :
          (/\ wpc[s] = "success" /\ wpc'[s] # "success"
           /\ \E d \in Cands :
                 /\ d # wtask[s]
                 /\ status[d] = "downloaded"
                 /\ local_path[d] # DestOf(wtask[s])
                 /\ sha256_local[d] = compute_sha256(files[DestOf(wtask[s])])) =>
              status'[wtask[s]] = "duplicate"]_vars

\* C27: when download_from_source finishes a fetched picture that is large
\* enough and whose perceptual hash is within PERCEPTUAL_HASH_THRESHOLD of
\* the hash of the file of another 'downloaded' candidate, the candidate
\* ends as a duplicate, its file is not kept and no bytes are counted for it.
C27_NearDuplicateDetected ==
    [][(/\ pc = "s_check" /\ pc' = "s_for" /\ faults' = faults
        /\ ~IsSmall(parts[DestOf(cid)].data)
        /\ \E d \in Cands :
              /\ d # cid
              /\ status[d] = "downloaded"
              /\ Exists(files[local_path[d]])
              /\ local_path[d] # DestOf(cid)
              /\ hamming_distance(compute_phash(parts[DestOf(cid)].data),
                                  compute_phash(files[local_path[d]].data))
                    <= PERCEPTUAL_HASH_THRESHOLD) =>
          /\ status'[cid] \in {"duplicate", "perceptual_duplicate"}
          /\ ~Exists(files'[DestOf(cid)])
          /\ downloaded_bytes'[cid] = downloaded_bytes[cid]]_vars

\* C31: the stored counter is only ever incremented: in a run in which no
\* exception was raised, the step of download_capped that stores the counter
\* after a download leaves it bytes_written above the value stored just
\* before, also when dedupe_exact lowered that value since the run read it.
C31_NoLostUpdate ==
    [][(pc = "sha" /\ pc' = "mark" /\ faults = 0) =>
          stats'.total_downloaded_bytes = stats.total_downloaded_bytes + bytes_written]_vars

\* C32: when download_capped processes a candidate again and finds its file
\* already at the final path (a path no other candidate maps to), the commit
\* equals the commit of a first download: the row gets the path, the size
\* and the digest of the file, the file counter rises by one, and a stored
\* byte counter that did not yet include the file rises by the file's size.
C32_IdempotentCommit ==
    [][(/\ pc = "dest" /\ pc' = "for"
        /\ status'[cid] = "downloaded"
        /\ \A d \in Cands \ {cid} : DestOf(d) # DestOf(cid)
        /\ stats.total_downloaded_bytes =
              SumBytes({c \in Cands : status[c] = "downloaded"}, downloaded_bytes)) =>
          /\ local_path'[cid] = DestOf(cid)
          /\ downloaded_bytes'[cid] = files[DestOf(cid)].size
          /\ sha256_local'[cid] = compute_sha256(files[DestOf(cid)])
          /\ stats'.total_files_downloaded = stats.total_files_downloaded + 1
          /\ stats'.total_downloaded_bytes =
                stats.total_downloaded_bytes + files[DestOf(cid)].size]_vars

\* C33: a run of download_capped in which no exception was raised ends only
\* when the stored byte counter has reached the cap or no 'pending'
\* candidate is left whose file would fit under the cap.
C33_StopCondition ==
    [][(pc = "while" /\ pc' = "idle" /\ faults = 0) =>
          \/ stats.total_downloaded_bytes >= MAX_STORAGE_BYTES
          \/ \A c \in Cands :
                status[c] = "pending" =>
                    (\/ cand[c].content = NotFound
                     \/ stats.total_downloaded_bytes + SizeOf(cand[c].content)
                           > MAX_STORAGE_BYTES)]_vars

\* C35: download_parallel does not deadlock when the cap is reached: while
\* a worker holds stats_lock and waits to put its task back into its full
\* queue, the feeder or some worker can take a step.
C35_DeadlockFree ==
    \A s \in Sources :
        (/\ wpc[s] = "putback"
         /\ Len(queue[s]) >= QUEUE_MAXSIZE
         /\ ~(fpc = "pending" /\ cycles >= MaxCycles)) => ENABLED NextPar

\* C36: stats.total_failed is never negative and equals the number of
\* candidates whose status is 'failed'.
C36_FailureCounter ==
    /\ stats.total_failed >= 0
    /\ stats.total_failed = Cardinality({c \in Cands : status[c] = "failed"})

\* C37: download_capped terminates: a run that was started ends, whatever
\* the outcome of each attempt; every pass of the outer loop that enters the
\* for loop has a non-empty batch headed by a pending candidate and budget
\* left, and the for loop then takes that candidate out of 'pending'.
C37_Terminates ==
    /\ (pc # "idle") ~> (pc = "idle")
    /\ [][(pc = "while" /\ pc' = "for") =>
             /\ batch' # <<>>
             /\ total_bytes' < MAX_STORAGE_BYTES
             /\ status[Head(batch')] = "pending"]_capVars
    /\ [][(pc = "for" /\ batch # <<>> /\ total_bytes < MAX_STORAGE_BYTES) =>
             (status[Head(batch)] = "pending" => status'[Head(batch)] = "downloading")]_capVars

C37_Witness ==
    /\ pc = "idle"
    /\ runs = MaxRuns
    /\ \E c, d \in Cands :
          /\ cand[c].content = NotFound /\ status[c] = "failed"
          /\ status[d] = "downloaded"

\* C38: the manifest expander terminates cleanly: a run that was started
\* ends, whatever the outcome of each fetch and insert, and when it has ended
\* no manifest is 'pending' or 'downloading': each one is 'done' or 'failed'.
C38_HarvestTerminates ==
    /\ (hpc \notin {"idle", "exit"}) ~> (hpc = "exit")
    /\ [](hpc = "exit" => \A m \in Mans : man_status[m] \in {"done", "failed"})

C38_Witness ==
    /\ hpc = "exit"
    /\ runs = 1
    /\ \E m, n \in Mans : man_status[m] = "failed" /\ man_status[n] = "done"
    /\ \A m \in Mans : picked[m] = 1

\* C39: the cap across restarts of download_parallel: the value of
\* total_bytes_downloaded with which a run starts is at least the sum of the
\* bytes of the candidates that earlier runs downloaded.
C39_CapAcrossRuns ==
    [][(fpc = "idle" /\ fpc' # "idle") =>
          total_bytes_downloaded' >=
              SumBytes({c \in Cands : status[c] = "downloaded"}, downloaded_bytes)]_vars

\* C34: temp files are worker-local: at no time are two processes of
\* download_parallel_sources both between choosing their file name and the
\* rename with the same path, that is, writing the same temp file and
\* renaming onto the same final file at the same time.
C34_TempFilesLocal ==
    ~(/\ pc \in {"s_get", "s_check"}
      /\ peer.pc \in {"s_get", "s_check"}
      /\ DestOf(cid) = DestOf(peer.cid))
====
